---- MODULE Spec2Model ----
(***************************************************************************)
(* pygraphy/types/schema.py: the SchemaType metaclass (root validation and  *)
(* the registration of every type reachable from the root fields) and       *)
(* Schema.execute (one operation per request under a task-local Context).   *)
(***************************************************************************)
EXTENDS Naturals, Sequences, FiniteSets, TLC

(* ------------------------------------------------------------------ *)
(* Bounds of the model                                                 *)
(* ------------------------------------------------------------------ *)

\* Total number of field / member / subclass references declared by the
\* named types of one type graph (the root fields are not counted).
MaxEdges == 3

\* Number of execute calls in progress at one time, over all tasks
\* (concurrent calls of different tasks and nested calls of one task).
MaxFrames == 2

\* Number of errors the resolution protocol appends during one execute call.
MaxErrors == 1

\* The named types a type graph declares (identity of a type = its name).
TypeNames == {"A", "B", "C"}

Kinds == {"Object", "Union", "Input", "Interface", "Enum"}

\* How the field declarations of one type graph write their types.
Styles == {"bare", "optional", "listoptional", "resolver"}

(* ------------------------------------------------------------------ *)
(* Type annotations                                                    *)
(* ------------------------------------------------------------------ *)

Named(n) == [tag |-> "named", name |-> n, args |-> <<>>]

Scalar(s) == [tag |-> "scalar", name |-> s, args |-> <<>>]

NoneType == Scalar("NoneType")

ListOf(t) == [tag |-> "list", name |-> "", args |-> <<t>>]

UnionOf(ts) == [tag |-> "union", name |-> "", args |-> ts]

Optional(t) == UnionOf(<<t, NoneType>>)

is_union(t) == t.tag = "union"

is_list(t) == t.tag = "list"

is_optional(t) == is_union(t) /\ Len(t.args) = 2 /\ t.args[2] = NoneType

(* ------------------------------------------------------------------ *)
(* State                                                               *)
(* ------------------------------------------------------------------ *)

VARIABLES
    decl,             \* the declared named types: kind, __fields__, members, __subclasses__()
    root_fields,      \* cls.__fields__ of the schema class, in declaration order
    object_valid,     \* whether ObjectType.validate(cls) accepts the schema class
    pc,               \* position of SchemaType.__new__
    validated_type,   \* cls.validated_type
    registered_type,  \* cls.registered_type
    stack,            \* pending register_types calls: the types each has left, innermost first
    raised            \* the exception that left SchemaType.__new__, or "none"

schemaVars == <<decl, root_fields, object_valid, pc, validated_type, registered_type, stack, raised>>

VARIABLES
    frames,           \* per task, the execute calls in progress, outermost first
    context           \* per task, the value of the ContextVar `context` in the task's context

execVars == <<frames, context>>

vars == <<schemaVars, execVars>>

(* ------------------------------------------------------------------ *)
(* Classification of a type (isinstance against the metaclasses)       *)
(* ------------------------------------------------------------------ *)

\* d is the mapping of the declared named types.
KindOf(d, t) == IF t.tag = "named" THEN d[t.name].kind ELSE "none"

IsObjectType(d, t) == KindOf(d, t) = "Object"

IsUnionType(d, t) == KindOf(d, t) = "Union"

IsInputType(d, t) == KindOf(d, t) = "Input"

IsInterfaceType(d, t) == KindOf(d, t) = "Interface"

IsEnumType(d, t) == KindOf(d, t) = "Enum"

(* ------------------------------------------------------------------ *)
(* SchemaType.validate                                                 *)
(* ------------------------------------------------------------------ *)

VALID_ROOT_TYPES == {"query", "mutation"}

\* A validate that accepts any root field name.
FieldRejectedAnyName(d, f) ==
    \/ f.cls \notin {"Field", "ResolverField"}
    \/ ~is_optional(f.ftype)
    \/ ~IsObjectType(d, f.ftype.args[1])

\* The checks validate makes on one root field, in order: TRUE when one raises.
FieldRejected(d, f) ==
    \/ f.name \notin VALID_ROOT_TYPES
    \/ f.cls \notin {"Field", "ResolverField"}
    \/ ~is_optional(f.ftype)
    \/ ~IsObjectType(d, f.ftype.args[1])

\* validate raises ValidationError: a root field is rejected, or the
\* generic ObjectType.validate rejects the class.
ValidateRaises(d, fields, ov) ==
    \/ \E i \in 1..Len(fields) : FieldRejected(d, fields[i])
    \/ ~ov

(* ------------------------------------------------------------------ *)
(* SchemaType.register_fields_type / register_types                    *)
(* ------------------------------------------------------------------ *)

RECURSIVE return_types_only(_)
\* A frontier that leaves out the parameter types of the ResolverFields.
return_types_only(fields) ==
    IF fields = <<>> THEN <<>>
    ELSE <<Head(fields).ftype>> \o return_types_only(Tail(fields))

RECURSIVE params_before_return_types(_)
\* A frontier that puts the parameter types of a ResolverField before its ftype.
params_before_return_types(fields) ==
    IF fields = <<>> THEN <<>>
    ELSE LET f == Head(fields) IN
         (IF f.cls = "ResolverField" THEN f.params ELSE <<>>)
         \o <<f.ftype>>
         \o params_before_return_types(Tail(fields))

RECURSIVE param_return_types(_)
\* The frontier register_fields_type builds: each field's ftype, followed
\* for a ResolverField by its parameter types.
param_return_types(fields) ==
    IF fields = <<>> THEN <<>>
    ELSE LET f == Head(fields) IN
         <<f.ftype>>
         \o (IF f.cls = "ResolverField" THEN f.params ELSE <<>>)
         \o param_return_types(Tail(fields))

\* A visited-check that never finds the type.
NeverValidated(validated, ptype) == FALSE

\* ptype in cls.validated_type
InValidated(validated, ptype) == \E i \in 1..Len(validated) : validated[i] = ptype

\* A register_types that appends whatever it visits, wrappers included.
IsRegisteredWithWrappers(d, ptype) == ptype.tag # "scalar"

\* The branches of register_types that append ptype to registered_type.
IsRegistered(d, ptype) ==
    \/ IsObjectType(d, ptype)
    \/ (~is_union(ptype) /\ ~is_list(ptype)
        /\ (IsUnionType(d, ptype) \/ IsInputType(d, ptype)
            \/ IsInterfaceType(d, ptype) \/ IsEnumType(d, ptype)))

\* A register_types whose Interface branch leaves out __subclasses__().
RecursionOwnFieldsOnly(d, ptype) ==
    IF IsObjectType(d, ptype) THEN <<param_return_types(d[ptype.name].fields)>>
    ELSE IF is_union(ptype) \/ is_list(ptype) THEN <<ptype.args>>
    ELSE IF IsUnionType(d, ptype) THEN <<d[ptype.name].members>>
    ELSE IF IsInputType(d, ptype) THEN <<param_return_types(d[ptype.name].fields)>>
    ELSE IF IsInterfaceType(d, ptype) THEN <<param_return_types(d[ptype.name].fields)>>
    ELSE <<>>

\* The register_types calls the branch of ptype makes, in order: the
\* list of types of each call.
Recursion(d, ptype) ==
    IF IsObjectType(d, ptype) THEN <<param_return_types(d[ptype.name].fields)>>
    ELSE IF is_union(ptype) \/ is_list(ptype) THEN <<ptype.args>>
    ELSE IF IsUnionType(d, ptype) THEN <<d[ptype.name].members>>
    ELSE IF IsInputType(d, ptype) THEN <<param_return_types(d[ptype.name].fields)>>
    ELSE IF IsInterfaceType(d, ptype)
        THEN <<param_return_types(d[ptype.name].fields), d[ptype.name].subclasses>>
    ELSE <<>>

\* A register_types whose loop ends at the first type seen before (break
\* in the place of continue).
RegisterStepBreak(d, r) ==
    IF r.stack[1] = <<>>
        THEN [r EXCEPT !.stack = Tail(r.stack)]
    ELSE LET ptype == Head(r.stack[1])
             rest == <<Tail(r.stack[1])>> \o Tail(r.stack)
         IN  IF InValidated(r.validated, ptype)
                 THEN [r EXCEPT !.stack = <<<<>>>> \o Tail(r.stack)]
             ELSE [stack |-> Recursion(d, ptype) \o rest,
                   validated |-> Append(r.validated, ptype),
                   registered |-> IF IsRegistered(d, ptype)
                                     THEN Append(r.registered, ptype)
                                     ELSE r.registered]

\* One step of register_types on r = [stack, validated, registered], where
\* stack holds, innermost first, the types each pending call has left:
\* the return of a call whose loop is over, or one iteration of the loop.
RegisterStep(d, r) ==
    IF r.stack[1] = <<>>
        THEN [r EXCEPT !.stack = Tail(r.stack)]
    ELSE LET ptype == Head(r.stack[1])
             rest == <<Tail(r.stack[1])>> \o Tail(r.stack)
         IN  IF InValidated(r.validated, ptype)
                 THEN [r EXCEPT !.stack = rest]
             ELSE [stack |-> Recursion(d, ptype) \o rest,
                   validated |-> Append(r.validated, ptype),
                   registered |-> IF IsRegistered(d, ptype)
                                     THEN Append(r.registered, ptype)
                                     ELSE r.registered]

RECURSIVE RegisterAll(_, _)
\* register_fields_type run to its end.
RegisterAll(d, r) == IF r.stack = <<>> THEN r ELSE RegisterAll(d, RegisterStep(d, r))

Registry == [stack |-> stack, validated |-> validated_type, registered |-> registered_type]

\* SchemaType.__new__ up to the end of validate.
Validate ==
    /\ pc = "new"
    /\ IF ValidateRaises(decl, root_fields, object_valid)
          THEN pc' = "failed" /\ raised' = "ValidationError"
          ELSE pc' = "validated" /\ raised' = raised
    /\ UNCHANGED <<decl, root_fields, object_valid, validated_type, registered_type, stack>>
    /\ UNCHANGED execVars

\* cls.register_fields_type(cls.__fields__.values()): the outermost register_types call.
RegisterRoot ==
    /\ pc = "validated"
    /\ stack' = <<param_return_types(root_fields)>>
    /\ pc' = "registering"
    /\ UNCHANGED <<decl, root_fields, object_valid, validated_type, registered_type, raised>>
    /\ UNCHANGED execVars

\* An iteration of the innermost register_types loop on a type seen before.
RegisterSkip ==
    /\ pc = "registering" /\ stack # <<>> /\ stack[1] # <<>>
    /\ InValidated(validated_type, Head(stack[1]))
    /\ stack' = RegisterStep(decl, Registry).stack
    /\ UNCHANGED <<decl, root_fields, object_valid, pc, validated_type, registered_type, raised>>
    /\ UNCHANGED execVars

\* An iteration on a type not seen before: it is marked, appended to the
\* registry when its branch does so, and the calls of its branch are entered.
RegisterVisit ==
    /\ pc = "registering" /\ stack # <<>> /\ stack[1] # <<>>
    /\ ~InValidated(validated_type, Head(stack[1]))
    /\ LET r == RegisterStep(decl, Registry) IN
        /\ stack' = r.stack
        /\ validated_type' = r.validated
        /\ registered_type' = r.registered
    /\ UNCHANGED <<decl, root_fields, object_valid, pc, raised>>
    /\ UNCHANGED execVars

\* The loop of the innermost register_types call is over: it returns.
RegisterReturn ==
    /\ pc = "registering" /\ stack # <<>> /\ stack[1] = <<>>
    /\ stack' = RegisterStep(decl, Registry).stack
    /\ UNCHANGED <<decl, root_fields, object_valid, pc, validated_type, registered_type, raised>>
    /\ UNCHANGED execVars

\* register_fields_type returned: SchemaType.__new__ returns the class.
Finish ==
    /\ pc = "registering" /\ stack = <<>>
    /\ pc' = "done"
    /\ UNCHANGED <<decl, root_fields, object_valid, validated_type, registered_type, stack, raised>>
    /\ UNCHANGED execVars

(* ------------------------------------------------------------------ *)
(* The declarations a schema class is built from                       *)
(* ------------------------------------------------------------------ *)

SeqsUpTo(S, n) == UNION {[1..k -> S] : k \in 0..n}

\* What a type of kind k may declare: fields, Union members, and the
\* classes __subclasses__() returns for an Interface.
Slots(k) ==
    CASE k \in {"Object", "Input"} -> {"field"}
      [] k = "Union" -> {"member"}
      [] k = "Interface" -> {"field", "subclass"}
      [] OTHER -> {}

EdgeChoices(k) == [slot : Slots(k), to : TypeNames]

RECURSIVE Targets(_, _)
Targets(edges, slot) ==
    IF edges = <<>> THEN <<>>
    ELSE (IF Head(edges).slot = slot THEN <<Named(Head(edges).to)>> ELSE <<>>)
         \o Targets(Tail(edges), slot)

\* A class is no subclass of itself, and two classes are not subclasses of each other.
SubclassesWellFounded(shape) ==
    \A n \in TypeNames : \A i \in 1..Len(shape[n]) :
        shape[n][i].slot = "subclass" =>
            /\ shape[n][i].to # n
            /\ \A j \in 1..Len(shape[shape[n][i].to]) :
                  ~(shape[shape[n][i].to][j].slot = "subclass" /\ shape[shape[n][i].to][j].to = n)

PlainField(t) == [cls |-> "Field", ftype |-> t, params |-> <<>>]

\* The __fields__ of a type whose fields refer to ts, written in the given style.
FieldsIn(style, ts) ==
    CASE style = "bare" -> [i \in 1..Len(ts) |-> PlainField(ts[i])]
      [] style = "optional" -> [i \in 1..Len(ts) |-> PlainField(Optional(ts[i]))]
      [] style = "listoptional" -> [i \in 1..Len(ts) |-> PlainField(ListOf(Optional(ts[i])))]
      [] style = "resolver" ->
            IF ts = <<>> THEN <<>>
            ELSE << [cls |-> "ResolverField", ftype |-> ts[1],
                     params |-> [i \in 1..(Len(ts) - 1) |-> ListOf(ts[i + 1])]] >>

Declare(kinds, shape, style) ==
    [n \in TypeNames |->
        [kind |-> kinds[n],
         fields |-> FieldsIn(style, Targets(shape[n], "field")),
         members |-> Targets(shape[n], "member"),
         subclasses |-> Targets(shape[n], "subclass")]]

RootField(name, cls, t) ==
    [name |-> name, cls |-> cls, ftype |-> t,
     params |-> IF cls = "ResolverField" THEN <<Named("C")>> ELSE <<>>]

KindChoices == [A : {"Object"}, B : Kinds, C : Kinds]

GraphRoots ==
    { <<RootField("query", "Field", Optional(Named("A")))>>,
      <<RootField("query", "Field", Optional(Named("A"))),
        RootField("mutation", "Field", Optional(Named("B")))>> }

RootNames == {"query", "mutation", "subscription"}

RootClasses == {"Field", "ResolverField", "int"}

RootTypes == {Optional(Named("A")), Optional(Named("B")), Named("A"), Optional(Scalar("str"))}

RootFieldChoices == {RootField(n, c, t) : n \in RootNames, c \in RootClasses, t \in RootTypes}

\* __fields__ is a mapping: the names of the root fields are distinct.
RootChoices ==
    {r \in SeqsUpTo(RootFieldChoices, 2) : \A i, j \in 1..Len(r) : r[i].name = r[j].name => i = j}

NoEdges == [A |-> <<>>, B |-> <<>>, C |-> <<>>]

(* ------------------------------------------------------------------ *)
(* Schema.execute                                                      *)
(* ------------------------------------------------------------------ *)

\* The cooperative tasks of the host; each runs in its own context.
TaskIds == {"t1", "t2"}

\* The variables each task passes to execute: every task has its own.
VariablesOf == [t1 |-> {"v1"}, t2 |-> {"v2"}]

Document(defs) == [valid |-> TRUE, definitions |-> defs]

\* Query texts, each given by what parse makes of it: a syntax error, or a
\* document whose definitions are query, mutation or subscription
\* operations, or fragments.
Queries ==
    { [valid |-> FALSE, definitions |-> <<>>],
      Document(<<"query">>),
      Document(<<"mutation">>),
      Document(<<"fragment", "query">>),
      Document(<<"subscription", "mutation", "query">>),
      Document(<<"query", "mutation">>),
      Document(<<"fragment", "subscription">>) }

\* isinstance(definition, OperationDefinitionNode)
IsOperationDefinition(def) == def \in {"query", "mutation", "subscription"}

\* A test that lets every operation through, whatever its kind.
IsAnyOperation(def) == TRUE

\* definition.operation in (OperationType.QUERY, OperationType.MUTATION)
IsQueryOrMutation(def) == def \in {"query", "mutation"}

RECURSIVE SelectDefinition(_, _)
\* The loop over document.definitions from index i on: the index of the
\* definition whose branch runs (and returns), or 0 when the loop ends.
SelectDefinition(defs, i) ==
    IF i > Len(defs) THEN 0
    ELSE IF ~IsOperationDefinition(defs[i]) THEN SelectDefinition(defs, i + 1)
    ELSE IF IsQueryOrMutation(defs[i]) THEN i
    ELSE SelectDefinition(defs, i + 1)

FIELD_MAP == [query |-> "query", mutation |-> "mutation"]

\* A lookup that finds a root field for every operation FIELD_MAP knows.
HasAnyRootField(fields, op) == op \in DOMAIN FIELD_MAP

\* cls.__fields__[cls.FIELD_MAP[definition.operation]] finds its key.
HasRootField(fields, op) ==
    /\ op \in DOMAIN FIELD_MAP
    /\ \E i \in DOMAIN fields : fields[i].name = FIELD_MAP[op]

\* The state of the ContextVar before any set.
NoContext ==
    [bound |-> FALSE, schema |-> "", root_ast |-> <<>>, request |-> "", variables |-> "",
     id |-> 0]

\* Context(schema=cls, root_ast=document.definitions, request=request,
\* variables=variables); id tells the Context objects of one task apart.
Context(defs, request, variables, id) ==
    [bound |-> TRUE, schema |-> "cls", root_ast |-> defs, request |-> request,
     variables |-> variables, id |-> id]

\* A set that binds the value for every task, as a module global would.
ContextSetGlobal(c, t, value) == [u \in TaskIds |-> value]

\* context.set(value) run by task t: only the context of t changes.
ContextSet(c, t, value) == [c EXCEPT ![t] = value]

\* A reset that leaves the binding in place.
ContextResetNever(c, t, token) == c

\* context.reset(token) run by task t: the value before the set is back.
ContextReset(c, t, token) == [c EXCEPT ![t] = token]

NoneValue == [tag |-> "None", items |-> <<>>]

ListValue(s) == [tag |-> "list", items |-> s]

\* An envelope whose errors entry is always the collector.
EnvelopeWithList(error_collector, obj) ==
    [kind |-> "envelope", errors |-> ListValue(error_collector), data |-> obj,
     success |-> (error_collector = <<>>)]

\* return_root and success, as execute returns them.
Envelope(error_collector, obj) ==
    [kind |-> "envelope",
     errors |-> IF error_collector # <<>> THEN ListValue(error_collector) ELSE NoneValue,
     data |-> obj,
     success |-> (error_collector = <<>>)]

NoReturn == [kind |-> "pending", errors |-> NoneValue, data |-> "", success |-> FALSE]

\* An execute that answers a document without operation by an empty envelope.
ReturnEmptyEnvelope == Envelope(<<>>, "unset")

\* The loop ended without a return: execute returns None.
ReturnNone == [kind |-> "None", errors |-> NoneValue, data |-> "", success |-> FALSE]

\* A handler that catches nothing.
CaughtNever(e) == FALSE

\* except Exception: the exceptions the handler of execute catches.
\* BaseException stands for the exceptions that do not derive from Exception.
CaughtByExecute(e) == e \in {"Exception", "KeyError", "GraphQLSyntaxError"}

\* An execute call: query, variables, the definition selected, obj, the
\* error collector, the token of context.set, the Context it created, and
\* how it ended. appended counts the errors the resolution protocol
\* appended, outcome tells how obj.__resolve__ ended, and steps lists what
\* the call has done so far, in the order of its statements.
NewFrame(q, v) ==
    [pc |-> "called", query |-> q, variables |-> v,
     definition |-> IF q.valid THEN SelectDefinition(q.definitions, 1) ELSE 0,
     obj |-> "unset", error_collector |-> <<>>, appended |-> 0, outcome |-> "pending",
     token |-> NoContext, ctx |-> NoContext, ret |-> NoReturn, exc |-> "none",
     steps |-> <<>>]

\* A parse failure that execute turns into an envelope.
ParseFailureCaptured(q, v) ==
    [NewFrame(q, v) EXCEPT !.pc = "returned",
                           !.error_collector = <<"GraphQLSyntaxError">>,
                           !.ret = Envelope(<<"GraphQLSyntaxError">>, "unset")]

\* parse(query) raises: the exception leaves execute at its first statement.
ParseFailure(q, v) == [NewFrame(q, v) EXCEPT !.pc = "raised", !.exc = "GraphQLSyntaxError"]

\* execute from the point where obj.__resolve__ ended (with a value, or
\* with the exception e) to its own end.
AfterResolve(f, e) ==
    IF e = "value"
        THEN [f EXCEPT !.pc = "returned", !.outcome = e, !.obj = "resolved",
                       !.ret = Envelope(f.error_collector, "resolved"),
                       !.steps = @ \o <<"ContextUnbound", "Serialized">>]
    ELSE IF CaughtByExecute(e)
        THEN [f EXCEPT !.pc = "returned", !.outcome = e,
                       !.error_collector = Append(f.error_collector, e),
                       !.ret = Envelope(Append(f.error_collector, e), f.obj),
                       !.steps = @ \o <<"ContextUnbound", "Serialized">>]
    ELSE [f EXCEPT !.pc = "raised", !.outcome = e, !.exc = e]

\* context.reset(token) is reached when resolution ended with e.
ResetReached(e) == e = "value" \/ CaughtByExecute(e)

Innermost(t) == frames[t][Len(frames[t])]

Push(t, f) == [frames EXCEPT ![t] = Append(@, f)]

SetInnermost(t, f) == [frames EXCEPT ![t] = [@ EXCEPT ![Len(@)] = f]]

Pop(t) == [frames EXCEPT ![t] = SubSeq(@, 1, Len(@) - 1)]

RECURSIVE CountFrames(_)
CountFrames(S) ==
    IF S = {} THEN 0
    ELSE LET t == CHOOSE u \in S : TRUE IN Len(frames[t]) + CountFrames(S \ {t})

\* Task t may call execute: from the host, or from a resolver of the
\* execute call it is in.
CanCall(t) ==
    /\ pc = "done"
    /\ CountFrames(TaskIds) < MaxFrames
    /\ IF frames[t] = <<>> THEN TRUE ELSE Innermost(t).pc = "resolving"

\* parse(query) raises.
ExecuteSyntaxError(t) ==
    /\ CanCall(t)
    /\ \E q \in Queries, v \in VariablesOf[t] :
          /\ ~q.valid
          /\ frames' = Push(t, ParseFailure(q, v))
    /\ UNCHANGED <<context, schemaVars>>

\* No definition of the document is a query or a mutation operation.
ExecuteNoOperation(t) ==
    /\ CanCall(t)
    /\ \E q \in Queries, v \in VariablesOf[t] :
          /\ q.valid
          /\ NewFrame(q, v).definition = 0
          /\ frames' = Push(t, [NewFrame(q, v) EXCEPT !.pc = "returned", !.ret = ReturnNone,
                                                      !.steps = <<"Parsed">>])
    /\ UNCHANGED <<context, schemaVars>>

\* The schema has no root field for the operation: the lookup raises.
ExecuteMissingRoot(t) ==
    /\ CanCall(t)
    /\ \E q \in Queries, v \in VariablesOf[t] :
          LET f == NewFrame(q, v) IN
          /\ q.valid
          /\ f.definition # 0
          /\ ~HasRootField(root_fields, q.definitions[f.definition])
          /\ frames' = Push(t, [f EXCEPT !.pc = "raised", !.exc = "KeyError",
                                          !.steps = <<"Parsed", "OperationSelected">>])
    /\ UNCHANGED <<context, schemaVars>>

\* An execute that registers the type of the root object when it creates it.
ExecuteBindRegistering(t) ==
    /\ CanCall(t)
    /\ \E q \in Queries, v \in VariablesOf[t] :
          LET f == NewFrame(q, v)
              c == Context(q.definitions, t, v, Len(frames[t]) + 1)
          IN
          /\ q.valid
          /\ f.definition # 0
          /\ HasRootField(root_fields, q.definitions[f.definition])
          /\ frames' = Push(t, [f EXCEPT !.pc = "resolving", !.obj = "root",
                                          !.token = context[t], !.ctx = c,
                                          !.steps = <<"Parsed", "OperationSelected",
                                                      "ContextBound", "Resolving">>])
          /\ context' = ContextSet(context, t, c)
          /\ registered_type' = Append(registered_type, Named("A"))
    /\ UNCHANGED <<decl, root_fields, object_valid, pc, validated_type, stack, raised>>

\* The root object is created, the Context is bound and obj.__resolve__
\* is awaited.
ExecuteBind(t) ==
    /\ CanCall(t)
    /\ \E q \in Queries, v \in VariablesOf[t] :
          LET f == NewFrame(q, v)
              c == Context(q.definitions, t, v, Len(frames[t]) + 1)
          IN
          /\ q.valid
          /\ f.definition # 0
          /\ HasRootField(root_fields, q.definitions[f.definition])
          /\ frames' = Push(t, [f EXCEPT !.pc = "resolving", !.obj = "root",
                                          !.token = context[t], !.ctx = c,
                                          !.steps = <<"Parsed", "OperationSelected",
                                                      "ContextBound", "Resolving">>])
          /\ context' = ContextSet(context, t, c)
    /\ UNCHANGED schemaVars

\* The resolution protocol appends an error to the collector and goes on.
ResolveAppendError(t) ==
    /\ frames[t] # <<>>
    /\ Innermost(t).pc = "resolving"
    /\ Innermost(t).appended < MaxErrors
    /\ frames' = SetInnermost(t, [Innermost(t) EXCEPT
                    !.error_collector = Append(@, "FieldError"), !.appended = @ + 1])
    /\ UNCHANGED <<context, schemaVars>>

\* obj.__resolve__ returns: execute runs to its return.
ResolveReturn(t) ==
    /\ frames[t] # <<>>
    /\ Innermost(t).pc = "resolving"
    /\ frames' = SetInnermost(t, AfterResolve(Innermost(t), "value"))
    /\ context' = ContextReset(context, t, Innermost(t).token)
    /\ UNCHANGED schemaVars

\* obj.__resolve__ raises: execute runs to its return, or the exception leaves it.
ResolveRaise(t) ==
    /\ frames[t] # <<>>
    /\ Innermost(t).pc = "resolving"
    /\ \E e \in {"Exception", "BaseException"} :
          /\ frames' = SetInnermost(t, AfterResolve(Innermost(t), e))
          /\ context' = IF ResetReached(e)
                           THEN ContextReset(context, t, Innermost(t).token)
                           ELSE context
    /\ UNCHANGED schemaVars

\* The caller of an execute call that returned takes the result.
DeliverReturn(t) ==
    /\ frames[t] # <<>>
    /\ Innermost(t).pc = "returned"
    /\ frames' = Pop(t)
    /\ UNCHANGED <<context, schemaVars>>

\* The exception of an execute call reaches its caller: the resolution of
\* the enclosing execute call, which it ends, or the host. An exception
\* that reaches the host ends the task; the next call under this task id
\* is a new task, in whose context the ContextVar has no value.
DeliverRaise(t) ==
    /\ frames[t] # <<>>
    /\ Innermost(t).pc = "raised"
    /\ LET n == Len(frames[t])
           e == Innermost(t).exc
       IN  IF n = 1
               THEN frames' = Pop(t) /\ context' = [context EXCEPT ![t] = NoContext]
           ELSE /\ frames' = [frames EXCEPT ![t] =
                                 SubSeq(@, 1, n - 2) \o <<AfterResolve(@[n - 1], e)>>]
                /\ context' = IF ResetReached(e)
                                 THEN ContextReset(context, t, frames[t][n - 1].token)
                                 ELSE context
    /\ UNCHANGED schemaVars

(* ------------------------------------------------------------------ *)
(* Specification of schema construction                                *)
(* ------------------------------------------------------------------ *)

\* Type graphs of every shape with at most MaxEdges references in all,
\* under a query root field or a query and a mutation root field.
InitGraph ==
    \E k \in KindChoices, st \in Styles, r \in GraphRoots :
      \E a \in SeqsUpTo(EdgeChoices(k.A), MaxEdges) :
        \E b \in SeqsUpTo(EdgeChoices(k.B), MaxEdges - Len(a)) :
          \E c \in SeqsUpTo(EdgeChoices(k.C), MaxEdges - Len(a) - Len(b)) :
            LET shape == [A |-> a, B |-> b, C |-> c] IN
              /\ SubclassesWellFounded(shape)
              /\ decl = Declare(k, shape, st)
              /\ root_fields = r
              /\ object_valid = TRUE

\* Root fields of every shape over types that declare no fields.
InitRoot ==
    \E kb \in Kinds, r \in RootChoices, ov \in BOOLEAN :
      /\ decl = Declare([A |-> "Object", B |-> kb, C |-> "Enum"], NoEdges, "bare")
      /\ root_fields = r
      /\ object_valid = ov

Init ==
    /\ InitGraph \/ InitRoot
    /\ pc = "new"
    /\ validated_type = <<>>
    /\ registered_type = <<>>
    /\ stack = <<>>
    /\ raised = "none"
    /\ frames = [t \in TaskIds |-> <<>>]
    /\ context = [t \in TaskIds |-> NoContext]

Next ==
    \/ Validate
    \/ RegisterRoot
    \/ RegisterSkip
    \/ RegisterVisit
    \/ RegisterReturn
    \/ Finish

Spec == Init /\ [][Next]_vars

\* SchemaType.__new__ is sequential code: a statement that can run does run.
SpecFair == Init /\ [][Next]_vars /\ WF_vars(Next)

(* ------------------------------------------------------------------ *)
(* Specification of execute on a constructed schema                    *)
(* ------------------------------------------------------------------ *)

\* A schema class whose construction is over: Objects A and B under a
\* query root field, or a query and a mutation root field.
InitExec ==
    \E r \in GraphRoots :
      LET d == Declare([A |-> "Object", B |-> "Object", C |-> "Enum"], NoEdges, "bare")
          reg == RegisterAll(d, [stack |-> <<param_return_types(r)>>,
                                 validated |-> <<>>, registered |-> <<>>])
      IN
      /\ decl = d
      /\ root_fields = r
      /\ object_valid = TRUE
      /\ pc = "done"
      /\ validated_type = reg.validated
      /\ registered_type = reg.registered
      /\ stack = <<>>
      /\ raised = "none"
      /\ frames = [t \in TaskIds |-> <<>>]
      /\ context = [t \in TaskIds |-> NoContext]

NextExec ==
    \E t \in TaskIds :
        \/ ExecuteSyntaxError(t)
        \/ ExecuteNoOperation(t)
        \/ ExecuteMissingRoot(t)
        \/ ExecuteBind(t)
        \/ ResolveAppendError(t)
        \/ ResolveReturn(t)
        \/ ResolveRaise(t)
        \/ DeliverReturn(t)
        \/ DeliverRaise(t)

SpecExec == InitExec /\ [][NextExec]_vars

(* ------------------------------------------------------------------ *)
(* Properties of schema construction                                   *)
(* ------------------------------------------------------------------ *)

Range(s) == {s[i] : i \in DOMAIN s}

Count(s, x) == Cardinality({i \in DOMAIN s : s[i] = x})

\* The types a collection of fields names: declared types and, for a
\* ResolverField, parameter types.
FieldTypes(fields) ==
    UNION { {fields[i].ftype}
            \cup (IF fields[i].cls = "ResolverField" THEN Range(fields[i].params) ELSE {}) :
            i \in DOMAIN fields }

\* The types one type refers to directly: wrapper arguments, the fields of
\* an Object, Input or Interface, the members of a Union, the implementors
\* of an Interface.
RefsOf(t) ==
    IF t.tag \in {"list", "union"} THEN Range(t.args)
    ELSE IF t.tag = "named" THEN
        LET e == decl[t.name] IN
        CASE e.kind \in {"Object", "Input"} -> FieldTypes(e.fields)
          [] e.kind = "Interface" -> FieldTypes(e.fields) \cup Range(e.subclasses)
          [] e.kind = "Union" -> Range(e.members)
          [] OTHER -> {}
    ELSE {}

RECURSIVE Closure(_)
Closure(S) ==
    LET N == S \cup UNION {RefsOf(t) : t \in S}
    IN  IF N = S THEN S ELSE Closure(N)

\* Every type that can be reached from the root fields.
Reachable == Closure(FieldTypes(root_fields))

ReachableNamed == {t \in Reachable : t.tag = "named"}

\* C1: registered_type never holds the same declared type twice, at any
\* point of registration and after it, also on graphs with self references,
\* mutual references and types reached along several paths; once schema
\* construction is over each reachable named type is in it exactly once.
C1_NoDuplicates ==
    /\ \A i, j \in DOMAIN registered_type :
          registered_type[i] = registered_type[j] => i = j
    /\ pc = "done" => \A t \in ReachableNamed : Count(registered_type, t) = 1

\* A mutual reference between two registered Objects, after construction.
C1_Witness ==
    /\ pc = "done"
    /\ \E n, m \in TypeNames :
          /\ n # m
          /\ decl[n].kind = "Object" /\ decl[m].kind = "Object"
          /\ Named(m) \in Closure(FieldTypes(decl[n].fields))
          /\ Named(n) \in Closure(FieldTypes(decl[m].fields))
          /\ Count(registered_type, Named(n)) = 1
          /\ Count(registered_type, Named(m)) = 1

\* C2: after a successful schema construction every named type reachable
\* from the root fields (through field types, ResolverField parameter types,
\* wrapper arguments, Union members and Interface implementors) is in
\* registered_type.
C2_Closure == pc = "done" => ReachableNamed \subseteq Range(registered_type)

\* A type registered only because it is the parameter type of a ResolverField.
C2_Witness ==
    /\ pc = "done"
    /\ \E n \in TypeNames : \E i \in DOMAIN decl[n].fields :
          LET f == decl[n].fields[i] IN
          /\ Named(n) \in Range(registered_type)
          /\ f.cls = "ResolverField"
          /\ f.params # <<>>
          /\ f.params[1].args[1] \in Range(registered_type)
          /\ f.params[1].args[1] \notin {f.ftype, Named(n)}
          /\ f.params[1].args[1] \notin Range(root_fields[Len(root_fields)].ftype.args)

\* A field of a registered type declared as list of optional of an Enum.
ListOptionalEnumFields ==
    { x \in TypeNames :
        /\ decl[x].kind = "Enum"
        /\ \E n \in TypeNames : \E i \in DOMAIN decl[n].fields :
              /\ Named(n) \in Range(registered_type)
              /\ decl[n].kind \in {"Object", "Input", "Interface"}
              /\ decl[n].fields[i].ftype = ListOf(Optional(Named(x))) }

\* C3: registered_type holds only named types (Object, Union, Input,
\* Interface, Enum), never a list wrapper, an optional / union wrapper or a
\* scalar; a field typed list of optional of Enum X puts X in it exactly
\* once and neither wrapper.
C3_WrappersTransparent ==
    /\ \A i \in DOMAIN registered_type :
          /\ registered_type[i].tag = "named"
          /\ decl[registered_type[i].name].kind \in Kinds
    /\ pc = "done" =>
          \A x \in ListOptionalEnumFields :
              /\ Count(registered_type, Named(x)) = 1
              /\ ListOf(Optional(Named(x))) \notin Range(registered_type)
              /\ Optional(Named(x)) \notin Range(registered_type)

\* Registration went through a list of optional of Enum field.
C3_Witness ==
    /\ pc = "done"
    /\ \E x \in ListOptionalEnumFields :
          /\ ListOf(Optional(Named(x))) \in Range(validated_type)
          /\ Optional(Named(x)) \in Range(validated_type)
          /\ Named(x) \in Range(registered_type)

\* A root field that breaks the root shape: a name other than query and
\* mutation, not a Field descriptor, a type that is not optional-wrapped,
\* or an unwrapped type that is not an Object.
BreaksRootShape(f) ==
    \/ f.name \notin {"query", "mutation"}
    \/ f.cls \notin {"Field", "ResolverField"}
    \/ f.ftype.tag # "union"
    \/ NoneType \notin Range(f.ftype.args)
    \/ f.ftype.args[1].tag # "named"
    \/ decl[f.ftype.args[1].name].kind # "Object"

\* C4: when a declared root field breaks the root shape, validate raises
\* ValidationError, construction aborts, and registration never runs:
\* nothing is ever validated or registered for that schema.
C4_RootShapeFailFast ==
    (\E i \in DOMAIN root_fields : BreaksRootShape(root_fields[i])) =>
        /\ pc \in {"new", "failed"}
        /\ pc = "failed" => raised = "ValidationError"
        /\ validated_type = <<>>
        /\ registered_type = <<>>
        /\ stack = <<>>

\* Construction aborted on a second root field, after a well-formed query field.
C4_Witness ==
    /\ pc = "failed"
    /\ raised = "ValidationError"
    /\ object_valid
    /\ Len(root_fields) = 2
    /\ ~BreaksRootShape(root_fields[1])
    /\ BreaksRootShape(root_fields[2])
    /\ registered_type = <<>>

\* C5: every schema whose construction passes validation declares a query
\* root field.
C5_QueryRequired ==
    pc \in {"validated", "registering", "done"} =>
        \E i \in DOMAIN root_fields : root_fields[i].name = "query"

(* ------------------------------------------------------------------ *)
(* Properties of execute                                               *)
(* ------------------------------------------------------------------ *)

\* Every execute call in progress or just ended, of every task.
Calls == {<<t, i>> \in TaskIds \X (1..MaxFrames + 1) : i <= Len(frames[t])}

CallAt(c) == frames[c[1]][c[2]]

\* The errors the resolution protocol appended, n of them.
ProtocolErrors(n) == [i \in 1..n |-> "FieldError"]

\* Resolution of the call raised e.
ResolutionRaised(f) == f.ctx.bound /\ f.outcome \notin {"pending", "value"}

\* The call returned an envelope that reports the failure: success is
\* false and errors lists the errors appended before the raise, then the
\* raised error.
FailureReported(f) ==
    /\ f.pc = "returned"
    /\ f.ret.kind = "envelope"
    /\ f.ret.success = FALSE
    /\ f.ret.errors.tag = "list"
    /\ Len(f.ret.errors.items) >= 1
    /\ f.ret.errors.items = ProtocolErrors(f.appended) \o <<f.outcome>>

\* C6 as stated: whenever root-object resolution raises after a Context
\* was bound, whatever it raises, execute does not propagate it and returns
\* an envelope with success false and the errors collected so far plus the
\* raised one.
C6_AnyRaiseCaptured ==
    \A c \in Calls : ResolutionRaised(CallAt(c)) => FailureReported(CallAt(c))

\* C6 amended: whenever root-object resolution raises an exception that
\* derives from Exception after a Context was bound, execute does not
\* propagate it and returns an envelope with success false and the errors
\* collected so far plus the raised one.
C6_ExceptionCaptured ==
    \A c \in Calls :
        (ResolutionRaised(CallAt(c)) /\ CallAt(c).outcome # "BaseException")
            => FailureReported(CallAt(c))

\* Resolution appended an error, then raised, and execute returned both.
C6_Witness ==
    \E c \in Calls :
        /\ CallAt(c).outcome = "Exception"
        /\ CallAt(c).appended = 1
        /\ CallAt(c).pc = "returned"
        /\ CallAt(c).ret.errors = ListValue(<<"FieldError", "Exception">>)
        /\ ~CallAt(c).ret.success

\* C7: an execute call that bound a Context has unbound it when it is
\* over, however resolution ended: the ContextVar of the task holds again
\* what it held before the call.
C7_ContextRestored ==
    \A t \in TaskIds :
        frames[t] # <<>> =>
            ((Innermost(t).ctx.bound /\ Innermost(t).pc \in {"returned", "raised"})
                => context[t] = Innermost(t).token)

\* C8: while an execute call resolves, in any interleaving with the calls
\* of other tasks, the active Context of its task is the Context that call
\* created: its schema, root_ast, request and variables.
C8_ContextIsolation ==
    \A t \in TaskIds :
        frames[t] # <<>> =>
            (Innermost(t).pc = "resolving" =>
                /\ context[t] = Innermost(t).ctx
                /\ context[t].bound
                /\ context[t].schema = "cls"
                /\ context[t].root_ast = Innermost(t).query.definitions
                /\ context[t].request = t
                /\ context[t].variables = Innermost(t).variables
                /\ context[t].id = Len(frames[t]))

\* Two tasks resolve at the same time, each with its own variables.
C8_Witness ==
    /\ \A t \in TaskIds : frames[t] # <<>>
    /\ \A t \in TaskIds : Innermost(t).pc = "resolving"
    /\ context["t1"].variables = "v1"
    /\ context["t2"].variables = "v2"
    /\ Innermost("t1").appended = 1

\* C9: in every envelope execute returns, success is true exactly when the
\* error collector is empty, errors is null exactly when it is empty and
\* otherwise the collected errors in order: those the resolution protocol
\* appended, then an escaped exception.
C9_Envelope ==
    \A c \in Calls :
        LET f == CallAt(c) IN
        f.ret.kind = "envelope" =>
            /\ f.ret.success <=> (f.error_collector = <<>>)
            /\ (f.ret.errors = NoneValue) <=> (f.error_collector = <<>>)
            /\ f.error_collector # <<>> => f.ret.errors = ListValue(f.error_collector)
            /\ f.error_collector =
                  ProtocolErrors(f.appended)
                  \o (IF f.outcome = "value" THEN <<>> ELSE <<f.outcome>>)

\* One task got a clean envelope while the other got one whose resolution
\* returned a value after the protocol had appended an error.
C9_Witness ==
    /\ \A t \in TaskIds : frames[t] # <<>>
    /\ Innermost("t1").ret = Envelope(<<>>, "resolved")
    /\ Innermost("t1").ret.errors = NoneValue
    /\ Innermost("t2").ret.kind = "envelope"
    /\ Innermost("t2").outcome = "value"
    /\ Innermost("t2").ret.errors = ListValue(<<"FieldError">>)
    /\ ~Innermost("t2").ret.success

IsQueryOrMutationOperation(def) == def = "query" \/ def = "mutation"

\* The position of the first query or mutation operation of a document, 0 if none.
FirstOperation(defs) ==
    IF \E i \in DOMAIN defs : IsQueryOrMutationOperation(defs[i])
        THEN CHOOSE i \in DOMAIN defs :
                /\ IsQueryOrMutationOperation(defs[i])
                /\ \A j \in 1..(i - 1) : ~IsQueryOrMutationOperation(defs[j])
    ELSE 0

\* C10: an execute call deals with the first definition of the document
\* that is a query or mutation operation and with no other: that one is
\* the definition it selects, the only one it creates a root object and a
\* Context for, and without such a definition it creates neither.
C10_SingleOperation ==
    \A c \in Calls :
        LET f == CallAt(c)
            first == FirstOperation(f.query.definitions)
        IN
        /\ f.definition = first
        /\ f.ctx.bound => (first # 0 /\ f.obj # "unset"
                           /\ f.ctx.root_ast = f.query.definitions)
        /\ first = 0 => (~f.ctx.bound /\ f.obj = "unset" /\ f.ret.kind # "envelope")

\* The mutation after a subscription was resolved, and the query after it was not.
C10_Witness ==
    \E c \in Calls :
        /\ CallAt(c).query = Document(<<"subscription", "mutation", "query">>)
        /\ CallAt(c).definition = 2
        /\ CallAt(c).ret.kind = "envelope"
        /\ CallAt(c).ret.success


(* ------------------------------------------------------------------ *)
(* Properties of the registration order                                *)
(* ------------------------------------------------------------------ *)

\* The orders in which n declarations can be listed.
Orders(n) == {p \in [1..n -> 1..n] : \A i, j \in 1..n : p[i] = p[j] => i = j}

Reorder(s, p) == [i \in 1..Len(s) |-> s[p[i]]]

\* The declared types with the field declarations of A, B and C listed in
\* the orders pa, pb and po.
ReorderedDecl(pa, pb, po) ==
    [n \in TypeNames |->
        [decl[n] EXCEPT !.fields =
            Reorder(@, IF n = "A" THEN pa ELSE IF n = "B" THEN pb ELSE po)]]

\* registered_type of the schema class built from declarations d and root fields.
RegisteredOf(d, fields) ==
    RegisterAll(d, [stack |-> <<param_return_types(fields)>>,
                    validated |-> <<>>, registered |-> <<>>]).registered

\* The registered_type of every schema that declares the same fields and
\* types as the one under construction, in any order.
SameDeclarationsRegistries ==
    { RegisteredOf(ReorderedDecl(pa, pb, po), Reorder(root_fields, pr)) :
        pr \in Orders(Len(root_fields)),
        pa \in Orders(Len(decl["A"].fields)),
        pb \in Orders(Len(decl["B"].fields)),
        po \in Orders(Len(decl["C"].fields)) }

\* C11 as stated: a schema that declares the same fields and types in a
\* different order gets the same registered_type sequence.
C11_OrderStable ==
    pc = "done" => \A other \in SameDeclarationsRegistries : other = registered_type

\* C11 amended: a schema that declares the same fields and types in a
\* different order registers the same types, each once; the sequence is
\* determined by the declarations in their order and may differ.
C11_SameTypesAnyOrder ==
    pc = "done" =>
        \A other \in SameDeclarationsRegistries :
            /\ Range(other) = Range(registered_type)
            /\ Len(other) = Len(registered_type)

\* Listing the fields of a registered type in another order changes the
\* sequence and not the types in it.
C11_Witness ==
    /\ pc = "done"
    /\ Len(root_fields) = 1
    /\ \E other \in SameDeclarationsRegistries :
          /\ other # registered_type
          /\ Range(other) = Range(registered_type)
          /\ Len(other) = 3


\* The named types on a reference cycle of the type graph.
OnCycle == {n \in TypeNames : Named(n) \in Closure(RefsOf(Named(n)))}

\* C12: registration terminates on every finite type graph, cyclic ones
\* included: no type and no wrapper is expanded (marked in validated_type)
\* twice, and SchemaType.__new__ comes to its end, by returning the class
\* or by raising ValidationError.
C12_Terminates ==
    /\ [](\A i, j \in DOMAIN validated_type : validated_type[i] = validated_type[j] => i = j)
    /\ <>(pc \in {"done", "failed"} /\ stack = <<>>)

\* Construction came to its end on a graph where a registered type refers
\* to itself and two more lie on a cycle through wrappers.
C12_Witness ==
    /\ pc = "done"
    /\ stack = <<>>
    /\ \E n \in OnCycle :
          /\ Named(n) \in RefsOf(Named(n)) \cup UNION {RefsOf(t) : t \in RefsOf(Named(n))}
          /\ Named(n) \in Range(registered_type)
    /\ Cardinality(OnCycle \cap {t.name : t \in Range(registered_type)}) >= 2
    /\ \E t \in Range(validated_type) : t.tag \in {"list", "union"} /\ t # Optional(Named("A"))


(* ------------------------------------------------------------------ *)
(* Further properties of execute                                       *)
(* ------------------------------------------------------------------ *)

\* C13: in every envelope execute returns, data is the value root-object
\* resolution returned or null, also when resolution raised and the error
\* was captured: it is never the root instance execute created itself.
C13_DataResolvedOrNull ==
    \A c \in Calls :
        LET f == CallAt(c) IN
        f.ret.kind = "envelope" =>
            /\ f.ret.data \in {"resolved", "None"}
            /\ f.ret.data = "resolved" => f.outcome = "value"


(* ------------------------------------------------------------------ *)
(* Properties of the Interface branch                                  *)
(* ------------------------------------------------------------------ *)

NamedIn(S) == {t \in S : t.tag = "named"}

\* C14: after schema construction, for every Interface in registered_type
\* the types of its own fields are registered, and so is every class its
\* __subclasses__() returns, together with the types reachable from the
\* fields of that implementor.
C14_InterfaceImplementors ==
    pc = "done" =>
        \A t \in Range(registered_type) :
            IsInterfaceType(decl, t) =>
                /\ NamedIn(Closure(FieldTypes(decl[t.name].fields))) \subseteq Range(registered_type)
                /\ \A x \in Range(decl[t.name].subclasses) :
                      /\ x \in Range(registered_type)
                      /\ NamedIn(Closure(RefsOf(x))) \subseteq Range(registered_type)

\* An Object that no field, parameter or Union names was registered as
\* the implementor of a registered Interface, and its field was walked.
C14_Witness ==
    /\ pc = "done"
    /\ \E i, x \in TypeNames :
          /\ IsInterfaceType(decl, Named(i))
          /\ IsObjectType(decl, Named(x))
          /\ Named(i) \in Range(registered_type)
          /\ Named(x) \in Range(decl[i].subclasses)
          /\ Named(x) \in Range(registered_type)
          /\ \A f \in Range(root_fields) : f.ftype # Optional(Named(x))
          /\ \A n \in TypeNames :
                /\ Named(x) \notin Range(decl[n].members)
                /\ \A f \in Range(decl[n].fields) :
                      /\ f.ftype \notin {Named(x), Optional(Named(x)), ListOf(Optional(Named(x)))}
                      /\ ListOf(Named(x)) \notin Range(f.params)
          /\ Len(decl[x].fields) = 1
          /\ decl[x].fields[1].ftype = ListOf(Optional(Named("A")))
          /\ decl[x].fields[1].ftype \in Range(validated_type)


\* The call at position i of task t has just been made by a step.
Entered(t, i) == Len(frames'[t]) = i /\ Len(frames[t]) = i - 1

\* C15: a parse failure of the query text leaves execute as an exception:
\* nothing is put in an error collector, no envelope is returned, no root
\* instance is created and no Context is bound, and the step leaves the
\* ContextVar of every task as it was.
C15_ParseFailurePropagates ==
    /\ [](\A c \in Calls :
            ~CallAt(c).query.valid =>
                /\ CallAt(c).pc = "raised"
                /\ CallAt(c).exc = "GraphQLSyntaxError"
                /\ CallAt(c).error_collector = <<>>
                /\ CallAt(c).ret = NoReturn
                /\ CallAt(c).obj = "unset"
                /\ ~CallAt(c).ctx.bound)
    /\ [][\A t \in TaskIds : \A i \in 1..MaxFrames :
            (Entered(t, i) /\ ~frames'[t][i].query.valid) => context' = context]_vars

\* A resolver called execute with malformed text: the call raised and the
\* Context of the enclosing execution is still the active one.
C15_Witness ==
    \E t \in TaskIds :
        /\ Len(frames[t]) = 2
        /\ ~frames[t][2].query.valid
        /\ frames[t][2].pc = "raised"
        /\ frames[t][1].pc = "resolving"
        /\ context[t] = frames[t][1].ctx
        /\ context[t].bound


\* The steps of one execution, in order.
ExecutionSteps ==
    <<"Parsed", "OperationSelected", "ContextBound", "Resolving", "ContextUnbound", "Serialized">>

IsPrefix(s, w) == Len(s) <= Len(w) /\ \A i \in 1..Len(s) : s[i] = w[i]

\* The call at position i of task t is the one that runs, not one that
\* waits for an execute call made by its own resolvers.
Running(fs, i) == i = Len(fs)

\* C16: an execute call goes through Parsed, OperationSelected,
\* ContextBound, Resolving, ContextUnbound, Serialized in this order and
\* through each at most once; whenever it runs during resolution the
\* ContextVar holds the Context it bound before resolution started, a
\* Context no step changes; when the envelope is built the Context is
\* unbound again; and a step never takes back or repeats what was done.
C16_StepOrder ==
    /\ [](\A t \in TaskIds : \A i \in 1..Len(frames[t]) :
            LET f == frames[t][i] IN
            /\ IsPrefix(f.steps, ExecutionSteps)
            /\ f.pc = "resolving" =>
                  /\ f.steps = SubSeq(ExecutionSteps, 1, 4)
                  /\ f.ctx.bound
                  /\ Running(frames[t], i) => context[t] = f.ctx
            /\ f.ret.kind = "envelope" =>
                  /\ f.steps = ExecutionSteps
                  /\ Running(frames[t], i) => context[t] = f.token)
    /\ [][\A t \in TaskIds : \A i \in 1..MaxFrames :
            (i <= Len(frames[t]) /\ i <= Len(frames'[t])) =>
                /\ IsPrefix(frames[t][i].steps, frames'[t][i].steps)
                /\ frames[t][i].pc = "resolving" => frames'[t][i].ctx = frames[t][i].ctx
                /\ frames[t][i].pc # "resolving" => frames'[t][i].steps = frames[t][i].steps]_vars

\* An execution whose resolver made an execute call that raised KeyError
\* went through all six steps, and the ContextVar is unbound again.
C16_Witness ==
    \E t \in TaskIds :
        /\ Len(frames[t]) = 1
        /\ frames[t][1].steps = ExecutionSteps
        /\ frames[t][1].outcome = "KeyError"
        /\ frames[t][1].appended = 1
        /\ context[t] = NoContext


\* C17: no step of execute changes registered_type or validated_type,
\* whatever the query, the outcome and the calls of other tasks: they stay
\* what schema definition built.
C17_RegistryReadOnly ==
    /\ [](registered_type = RegisteredOf(decl, root_fields))
    /\ [][registered_type' = registered_type /\ validated_type' = validated_type]_vars

\* One task has an envelope with a captured resolution error and the
\* other a propagated parse error, over a registry of two types.
C17_Witness ==
    /\ Len(registered_type) = 2
    /\ validated_type # <<>>
    /\ \A t \in TaskIds : Len(frames[t]) = 1
    /\ frames["t1"][1].ret.kind = "envelope"
    /\ frames["t1"][1].outcome = "Exception"
    /\ frames["t2"][1].exc = "GraphQLSyntaxError"


\* C18: when no definition of the parsed document is a query or mutation
\* operation, execute returns None and no envelope, creates no root
\* instance, binds no Context, raises nothing, and the step leaves the
\* ContextVar of every task as it was.
C18_NoOperationReturnsNothing ==
    /\ [](\A c \in Calls :
            LET f == CallAt(c) IN
            (f.query.valid /\ \A k \in DOMAIN f.query.definitions :
                                  f.query.definitions[k] \notin {"query", "mutation"}) =>
                /\ f.pc = "returned"
                /\ f.ret.kind = "None"
                /\ f.obj = "unset"
                /\ ~f.ctx.bound
                /\ f.exc = "none"
                /\ f.error_collector = <<>>)
    /\ [][\A t \in TaskIds : \A i \in 1..MaxFrames :
            (Entered(t, i) /\ frames'[t][i].ret.kind = "None") => context' = context]_vars

\* A resolver called execute with a document of a fragment and a
\* subscription: the call returned None under the Context of the enclosing
\* execution.
C18_Witness ==
    \E t \in TaskIds :
        /\ Len(frames[t]) = 2
        /\ frames[t][2].query = Document(<<"fragment", "subscription">>)
        /\ frames[t][2].pc = "returned"
        /\ frames[t][2].ret = ReturnNone
        /\ frames[t][1].pc = "resolving"
        /\ context[t] = frames[t][1].ctx

\* The schema declares a mutation root field.
DeclaresMutation == \E k \in DOMAIN root_fields : root_fields[k].name = "mutation"

\* C20: when the first query or mutation operation of the document is a
\* mutation and the schema declares no mutation root field, the lookup of
\* the root field raises KeyError, which leaves execute: no root instance,
\* no Context, no envelope, and the step leaves the ContextVar of every
\* task as it was.
C20_MissingMutationRoot ==
    /\ [](\A c \in Calls :
            LET f == CallAt(c)
                first == FirstOperation(f.query.definitions)
            IN
            (f.query.valid /\ first # 0 /\ ~DeclaresMutation) =>
                (f.query.definitions[first] = "mutation" =>
                    /\ f.pc = "raised"
                    /\ f.exc = "KeyError"
                    /\ f.ret = NoReturn
                    /\ f.obj = "unset"
                    /\ ~f.ctx.bound
                    /\ f.token = NoContext
                    /\ f.error_collector = <<>>))
    /\ [][\A t \in TaskIds : \A i \in 1..MaxFrames :
            (Entered(t, i) /\ frames'[t][i].exc = "KeyError") => context' = context]_vars

\* A mutation was sent to a schema with a query root field only while the
\* other task was resolving: the call raised KeyError and both ContextVars
\* are as before.
C20_Witness ==
    /\ ~DeclaresMutation
    /\ Len(frames["t1"]) = 1
    /\ frames["t1"][1].query = Document(<<"mutation">>)
    /\ frames["t1"][1].exc = "KeyError"
    /\ context["t1"] = NoContext
    /\ Len(frames["t2"]) = 1
    /\ frames["t2"][1].pc = "resolving"
    /\ context["t2"] = frames["t2"][1].ctx


(* ------------------------------------------------------------------ *)
(* Depth-first first-discovery order                                   *)
(* ------------------------------------------------------------------ *)

\* What field k of a field collection names, in order: its declared type,
\* then for a ResolverField its parameter types.
NamedByField(fields, k) ==
    <<fields[k].ftype>> \o (IF fields[k].cls = "ResolverField" THEN fields[k].params ELSE <<>>)

RECURSIVE NamedByFields(_, _)
\* What the first k fields of a field collection name, in declaration order.
NamedByFields(fields, k) ==
    IF k = 0 THEN <<>> ELSE NamedByFields(fields, k - 1) \o NamedByField(fields, k)

\* The types a type leads to, in the order of declaration: the arguments
\* of a wrapper, the fields of an Object or Input, the members of a Union,
\* the fields and then the implementors of an Interface.
Successors(t) ==
    IF t.tag \in {"list", "union"} THEN t.args
    ELSE IF t.tag = "named" THEN
        LET e == decl[t.name] IN
        CASE e.kind \in {"Object", "Input"} -> NamedByFields(e.fields, Len(e.fields))
          [] e.kind = "Union" -> e.members
          [] e.kind = "Interface" -> NamedByFields(e.fields, Len(e.fields)) \o e.subclasses
          [] OTHER -> <<>>
    ELSE <<>>

RECURSIVE Discover(_, _)
\* Depth-first search from the types ts, in order, given the types seen
\* so far: the types in the order of their first discovery.
Discover(ts, seen) ==
    IF ts = <<>> THEN seen
    ELSE IF Head(ts) \in Range(seen) THEN Discover(Tail(ts), seen)
    ELSE Discover(Tail(ts), Discover(Successors(Head(ts)), Append(seen, Head(ts))))

IsNamedType(t) == t.tag = "named"

\* The named types in depth-first first-discovery order from the root fields.
FirstDiscoveryOrder ==
    SelectSeq(Discover(NamedByFields(root_fields, Len(root_fields)), <<>>), IsNamedType)

\* The types reachable from registered_type[i] that are not registered at
\* or before position i.
NewBelow(i) ==
    NamedIn(Closure(RefsOf(registered_type[i]))) \ {registered_type[j] : j \in 1..i}

\* C19: registered_type is in depth-first first-discovery order: during
\* registration it grows along that order (field declaration order, the
\* declared type of a ResolverField before its parameter types), at the end
\* it is that order, and every registered type comes right before the block
\* of the types that were still to be discovered from it.
C19_FirstDiscoveryOrder ==
    /\ pc \in {"registering", "done"} => IsPrefix(registered_type, FirstDiscoveryOrder)
    /\ pc = "done" =>
          /\ registered_type = FirstDiscoveryOrder
          /\ \A i \in DOMAIN registered_type :
                {registered_type[j] : j \in (i + 1)..(i + Cardinality(NewBelow(i)))} = NewBelow(i)

\* A ResolverField whose declared type and parameter type were both new:
\* its owner, then the declared type, then the parameter type.
C19_Witness ==
    /\ pc = "done"
    /\ Len(registered_type) = 3
    /\ \E k \in DOMAIN decl[registered_type[1].name].fields :
          LET f == decl[registered_type[1].name].fields[k] IN
          /\ f.cls = "ResolverField"
          /\ f.ftype = registered_type[2]
          /\ f.params = <<ListOf(registered_type[3])>>

====
